---------------------------- MODULE Spec2Model ----------------------------
(***************************************************************************)
(* A model of the recursive-descent JSON parser of src/main.rs.            *)
(*                                                                         *)
(* Text is a sequence of one-character strings.  The parser struct         *)
(* JsonParser {iter, line, col, ch} is the record                          *)
(*   [src, pos, line, col, ch, depth, log, from, iters]                    *)
(* where (src, pos) is the character iterator (pos is the index in src of  *)
(* the lookahead ch, Len(src)+1 once the iterator is exhausted) and the    *)
(* others are history fields: the nesting depth of parse_array /           *)
(* parse_object bodies, the child errors they handed on, where the current *)
(* iteration of each entered loop began and the times the loops went round.*)
(* Every production is an operator from a parser record to                 *)
(* [res |-> JsonResult, p |-> parser record after the call].               *)
(***************************************************************************)
EXTENDS Integers, Sequences, FiniteSets, TLC

VARIABLES
    parser,    \* the JsonParser
    base,      \* the document the input text was written from
    op,        \* the production called on the parser, "none" before the call
    result,    \* the JsonResult of that call
    attempts,  \* the vector p of parse_value (line 373) of a top-level parse call
    printed,   \* the text written by Display for an Ok result
    reparsed,  \* the JsonResult of parsing the printed text with a new parser
    pc         \* "new", "called", "returned", "printed", "reparsed"

vars == <<parser, base, op, result, attempts, printed, reparsed, pc>>

---------------------------------------------------------------------------
(* Bounds of the model.                                                    *)

\* Longest input, in tokens, of the token-sequence inputs.
MaxTokens == 3

\* Nesting depth of the generated documents.
MaxDepth == 2

\* Most elements of a generated array.
MaxElems == 2

\* Most members of a generated object.
MaxMembers == 1

---------------------------------------------------------------------------
(* Characters.                                                             *)

\* Option<char>::None, the lookahead at the end of the input.
None == "<none>"

\* The placeholder lookahead '\x00' set by new before its first consume_char.
Nul == "<nul>"

Digits == <<"0", "1", "2", "3", "4", "5", "6", "7", "8", "9">>

DigitSet == {Digits[i] : i \in 1..10}

Whitespace == {" ", "\n", "\t", "\r"}

---------------------------------------------------------------------------
(* JsonValue and JsonResult.                                               *)

Null == [tag |-> "Null"]

Bool(b) == [tag |-> "Bool", b |-> b]

Num(n) == [tag |-> "Num", n |-> n]

Str(s) == [tag |-> "Str", s |-> s]

Array(a) == [tag |-> "Array", a |-> a]

Object(o) == [tag |-> "Object", o |-> o]

Ok(v) == [ok |-> TRUE, v |-> v]

Err(e) == [ok |-> FALSE, e |-> e]

\* JsonValue::into_string
into_string(v) == IF v.tag = "Str" THEN v.s ELSE None

---------------------------------------------------------------------------
(* f64: the values num_str.parse::<f64>() can return for the tokens         *)
(* consume_num collects (digits, '.', 'e', 'E', '+', '-'), and their        *)
(* Display.  A finite value is the exact decimal (-1)^neg * m * 10^e with   *)
(* m not divisible by 10: the parse is correctly rounded and two decimals   *)
(* of fewer than 16 significant digits round to the same f64 only when      *)
(* they are the same number.  Past the largest finite f64 the value is      *)
(* inf, below the smallest subnormal it is zero.                            *)

F64Fin(neg, m, e) == [k |-> "fin", neg |-> neg, m |-> m, e |-> e]

F64Inf(neg) == [k |-> "inf", neg |-> neg, m |-> 0, e |-> 0]

DigitVal(c) == CHOOSE d \in 0..9 : Digits[d + 1] = c

RECURSIVE NumDigits(_)
NumDigits(m) == IF m < 10 THEN 1 ELSE 1 + NumDigits(m \div 10)

RECURSIVE Pow10(_)
Pow10(k) == IF k <= 0 THEN 1 ELSE 10 * Pow10(k - 1)

\* The first six significant digits of m, as a number.
Lead6(m) ==
    IF m < 1000000 THEN m * Pow10(6 - NumDigits(m))
    ELSE m \div Pow10(NumDigits(m) - 6)

\* m * 10^e, of decimal exponent sci, rounded to the range of f64
\* (f64::MAX is 1.7976931348623157e308, the least subnormal 4.9e-324).
F64Range(neg, m, e, sci) ==
    IF sci > 308 \/ (sci = 308 /\ Lead6(m) >= 179770) THEN F64Inf(neg)
    ELSE IF sci < -324 THEN F64Fin(neg, 0, 0)
    ELSE F64Fin(neg, m, e)

\* The f64 of m * 10^e: m without its trailing zeros.
RECURSIVE F64Of(_, _, _)
F64Of(neg, m, e) ==
    IF m = 0 THEN F64Fin(neg, 0, 0)
    ELSE IF m % 10 = 0 THEN F64Of(neg, m \div 10, e + 1)
    ELSE F64Range(neg, m, e, e + NumDigits(m) - 1)

\* One step of str::parse::<f64> over the token s, at its i-th character:
\*   [sign] (digits [. digits] | . digits) [(e|E) [sign] digits]
\* st is the part of the grammar the scan is in, a what it has read: the
\* signs, the mantissa digits as a number m, how many there are (nd), how
\* many follow the point (fl), and the exponent ex with its digit count.
RECURSIVE F64Scan(_, _, _, _)
F64Scan(s, i, st, a) ==
    IF i > Len(s)
    THEN [ok |-> a.nd >= 1 /\ (st \in {"esign", "exp"} => a.ed >= 1),
          n  |-> F64Of(a.neg, a.m, (IF a.eneg THEN 0 - a.ex ELSE a.ex) - a.fl)]
    ELSE IF st = "sign"
    THEN IF s[i] \in {"-", "+"}
         THEN F64Scan(s, i + 1, "int", [a EXCEPT !.neg = (s[i] = "-")])
         ELSE F64Scan(s, i, "int", a)
    ELSE IF st = "esign"
    THEN IF s[i] \in {"-", "+"}
         THEN F64Scan(s, i + 1, "exp", [a EXCEPT !.eneg = (s[i] = "-")])
         ELSE F64Scan(s, i, "exp", a)
    ELSE IF s[i] \in DigitSet
    THEN IF st = "exp"
         THEN F64Scan(s, i + 1, st,
                      [a EXCEPT !.ex = a.ex * 10 + DigitVal(s[i]), !.ed = a.ed + 1])
         ELSE F64Scan(s, i + 1, st,
                      [a EXCEPT !.m = a.m * 10 + DigitVal(s[i]), !.nd = a.nd + 1,
                                !.fl = IF st = "frac" THEN a.fl + 1 ELSE a.fl])
    ELSE IF st = "int" /\ s[i] = "."
    THEN F64Scan(s, i + 1, "frac", a)
    ELSE IF st \in {"int", "frac"} /\ s[i] \in {"e", "E"} /\ a.nd >= 1
    THEN F64Scan(s, i + 1, "esign", a)
    ELSE [ok |-> FALSE, n |-> F64Fin(FALSE, 0, 0)]

\* str::parse::<f64>
ParseF64(s) ==
    F64Scan(s, 1, "sign",
            [neg |-> FALSE, m |-> 0, nd |-> 0, fl |-> 0,
             eneg |-> FALSE, ex |-> 0, ed |-> 0])

\* f64's PartialEq: 0.0 == -0.0.
F64Eq(a, b) ==
    IF a.k = "fin" /\ b.k = "fin" /\ a.m = 0 /\ b.m = 0 THEN TRUE ELSE a = b

RECURSIVE DigitsOf(_)
DigitsOf(m) ==
    IF m < 10 THEN <<Digits[m + 1]>>
    ELSE Append(DigitsOf(m \div 10), Digits[(m % 10) + 1])

Zeros(k) == [i \in 1..k |-> "0"]

\* format!("{}", n) of an f64: the shortest digits that parse back to n,
\* written without an exponent.
\* The digits ds scaled by 10^e.
Decimal(ds, e) ==
    IF e >= 0 THEN ds \o Zeros(e)
    ELSE IF Len(ds) + e > 0
    THEN SubSeq(ds, 1, Len(ds) + e) \o <<".">> \o SubSeq(ds, Len(ds) + e + 1, Len(ds))
    ELSE <<"0", ".">> \o Zeros(0 - e - Len(ds)) \o ds

FormatF64(n) ==
    (IF n.neg THEN <<"-">> ELSE <<>>)
        \o (IF n.k = "inf" THEN <<"i", "n", "f">>
            ELSE IF n.m = 0 THEN <<"0">>
            ELSE Decimal(DigitsOf(n.m), n.e))

---------------------------------------------------------------------------
(* The cursor.                                                             *)

\* Is the current character equal to c?
ch_is(p, c) == p.ch = c

\* Are we at the end of the file?
eof(p) == p.ch = None

\* consume_char with next the Option<char> iter.next() returns.
Advance(p, next) ==
    [p EXCEPT !.pos  = IF next = None THEN Len(p.src) + 1 ELSE p.pos + 1,
              !.ch   = next,
              !.line = IF next = "\n" THEN p.line + 1 ELSE p.line,
              !.col  = IF next = "\n" THEN 1 ELSE p.col + 1]

\* Advances the character iterator by one (iter.next()) and counts line
\* and column.
consume_char(p) ==
    Advance(p, IF p.pos < Len(p.src) THEN p.src[p.pos + 1] ELSE None)

\* JsonParser::new
JsonParserNew(input) ==
    consume_char([src |-> input, pos |-> 0, line |-> 1, col |-> 0,
                  ch |-> Nul, depth |-> 0, log |-> <<>>,
                  from |-> <<>>, iters |-> <<>>])

\* JsonParser::error: the JsonError, with the lookahead index it was
\* raised at (at, a history field).
error(p, reason) ==
    Err([reason |-> reason, line |-> p.line, col |-> p.col, at |-> p.pos])

ch_is_digit(p) == p.ch \in DigitSet

ch_is_whitespace(p) ==
    ch_is(p, " ") \/ ch_is(p, "\n") \/ ch_is(p, "\t") \/ ch_is(p, "\r")

RECURSIVE consume_whitespace(_)
consume_whitespace(p) ==
    IF ch_is_whitespace(p) THEN consume_whitespace(consume_char(p)) ELSE p

RECURSIVE MatchText(_, _, _, _)

\* The body of the loop of consume_text once the i-th character matched:
\* q is the parser after consume_char, whose result d is pushed on buf.
MatchNext(q, text, i, buf) ==
    MatchText(q, text, i + 1, Append(buf, IF q.ch = None THEN Nul ELSE q.ch))

\* The loop of consume_text over text.chars(), from its i-th character.
MatchText(p, text, i, buf) ==
    IF i > Len(text)
    THEN [some |-> TRUE, buf |-> buf, p |-> consume_whitespace(p)]
    ELSE IF ~ch_is(p, text[i])
    THEN [some |-> FALSE, buf |-> <<>>, p |-> p]
    ELSE MatchNext(consume_char(p), text, i, buf)

\* Advances the input by the length of the passed text; on a mismatch
\* returns None with the characters matched so far consumed.
consume_text(p, text) == MatchText(consume_whitespace(p), text, 1, <<>>)

\* The loop of consume_num.
RECURSIVE NumChars(_, _)
NumChars(p, acc) ==
    IF ch_is_digit(p) \/ ch_is(p, ".") \/ ch_is(p, "e") \/ ch_is(p, "E")
       \/ ch_is(p, "-") \/ ch_is(p, "+")
    THEN NumChars(consume_char(p), Append(acc, p.ch))
    ELSE [s |-> acc, p |-> p]

\* Consumes a numerical literal and returns its value as a string.
consume_num(p) == NumChars(consume_whitespace(p), <<>>)

---------------------------------------------------------------------------
(* The productions.                                                        *)

\* A parse_array or parse_object body is entered and left (history):
\* from[d] is the lookahead index at which the current iteration of the
\* loop entered d deep began.
Enter(p) == [p EXCEPT !.depth = p.depth + 1, !.from = Append(p.from, p.pos)]

Leave(p) ==
    [p EXCEPT !.depth = p.depth - 1, !.from = SubSeq(p.from, 1, Len(p.from) - 1)]

\* An iteration of the loop of parse_array or parse_object begins (history).
Begin(p) == [p EXCEPT !.from[p.depth] = p.pos]

\* The loop goes round: after a separator (sep) or on the path that
\* neither consumes a separator nor returns (history).
Again(p, loop, sep) ==
    [p EXCEPT !.iters = Append(p.iters, [loop |-> loop, sep |-> sep,
                                         from |-> p.from[p.depth], to |-> p.pos])]

\* The iteration that goes round consumed nothing: the next one begins with
\* the cursor as this one found it, parses the same and goes round again.
Stuck(p) == p.pos = p.from[p.depth]

\* The outcome of a call that never returns.
NoReturn ==
    [ok |-> FALSE, e |-> [reason |-> "NoReturn", line |-> 0, col |-> 0, at |-> 0]]

Left(r) == [res |-> r.res, p |-> Leave(r.p)]

\* parse_array or parse_object hands on the error e of a child of the
\* given kind ("element", "key", "value") (history).
Logged(p, kind, e) ==
    [p EXCEPT !.log = Append(p.log, [depth |-> p.depth, kind |-> kind, e |-> e])]

\* The match of parse_null on the Option t of consume_text.
NullMatch(t) ==
    IF t.some THEN [res |-> Ok(Null), p |-> t.p]
    ELSE [res |-> error(t.p, "ExpectedNull"), p |-> t.p]

\* Parses the JSON null value.
parse_null(p) == NullMatch(consume_text(p, <<"n", "u", "l", "l">>))

\* The match of parse_num on n = num_str.parse::<f64>(), the parser being p.
NumMatch(n, p) ==
    IF n.ok THEN [res |-> Ok(Num(n.n)), p |-> p]
    ELSE [res |-> error(p, "NumberParsing"), p |-> p]

\* parse_num with num_str = c.s consumed.
NumStr(c) == NumMatch(ParseF64(c.s), c.p)

\* parse_num after its consume_whitespace.
NumAt(p) ==
    IF ch_is_digit(p) \/ ch_is(p, "-") THEN NumStr(consume_num(p))
    ELSE [res |-> error(p, "NumberParsing"), p |-> p]

\* Parses a JSON number.
parse_num(p) == NumAt(consume_whitespace(p))

\* The while loop of parse_string, after the opening quote.
RECURSIVE StringLoop(_, _)
StringLoop(p, s) ==
    IF eof(p) THEN [res |-> error(p, "UnclosedStringLiteral"), p |-> p]
    ELSE IF ch_is(p, "\"") THEN [res |-> Ok(Str(s)), p |-> consume_char(p)]
    ELSE StringLoop(consume_char(p), Append(s, p.ch))

\* parse_string after its consume_whitespace.
StringAt(p) ==
    IF ch_is(p, "\"") THEN StringLoop(consume_char(p), <<>>)
    ELSE [res |-> error(p, "UnclosedStringLiteral"), p |-> p]

\* Parses a JSON string value.
parse_string(p) == StringAt(consume_whitespace(p))

\* parse_bool answering on the first character without consuming the
\* keyword.
BoolAtPeek(p) ==
    IF ch_is(p, "f") THEN [res |-> Ok(Bool(FALSE)), p |-> p]
    ELSE IF ch_is(p, "t") THEN [res |-> Ok(Bool(TRUE)), p |-> p]
    ELSE [res |-> error(p, "ExpectedBool"), p |-> p]

\* parse_bool after its consume_whitespace: the Option of consume_text is
\* dropped.
BoolAt(p) ==
    IF ch_is(p, "f")
    THEN [res |-> Ok(Bool(FALSE)), p |-> consume_text(p, <<"f", "a", "l", "s", "e">>).p]
    ELSE IF ch_is(p, "t")
    THEN [res |-> Ok(Bool(TRUE)), p |-> consume_text(p, <<"t", "r", "u", "e">>).p]
    ELSE [res |-> error(p, "ExpectedBool"), p |-> p]

\* Parses a JSON boolean.
parse_bool(p) == BoolAt(consume_whitespace(p))

\* parse_value returning the first error instead of the most recent one.
RECURSIVE LoopResultsFirstError(_, _, _)
LoopResultsFirstError(results, i, most_recent_error) ==
    IF i > Len(results) THEN most_recent_error
    ELSE IF results[i].ok THEN results[i]
    ELSE LoopResultsFirstError(results, i + 1,
                               IF i = 1 THEN results[i] ELSE most_recent_error)

\* The for loop of parse_value over the results p, from the i-th on.
RECURSIVE LoopResults(_, _, _)
LoopResults(results, i, most_recent_error) ==
    IF i > Len(results) THEN most_recent_error
    ELSE IF results[i].ok THEN results[i]
    ELSE LoopResults(results, i + 1, results[i])

\* The order of the calls in the vec! of parse_value.
VecOrder == <<"bool", "string", "num", "null", "array", "object">>

RECURSIVE parse_value(_), parse_array(_), parse_object(_)
RECURSIVE Vec(_, _, _), ArrayLoop(_, _), ObjectLoop(_, _)

\* One call of the vec! of parse_value.
Production(name, p) ==
    CASE name = "bool"   -> parse_bool(p)
      [] name = "string" -> parse_string(p)
      [] name = "num"    -> parse_num(p)
      [] name = "null"   -> parse_null(p)
      [] name = "array"  -> parse_array(p)
      [] name = "object" -> parse_object(p)

\* The k-th call of the vec! returned r.
VecPush(k, r, rs) ==
    IF r.res = NoReturn THEN Append(rs, r) ELSE Vec(k + 1, r.p, Append(rs, r))

\* The vec! of parse_value from its k-th call on: every production is
\* called, each on the parser as the one before left it.
Vec(k, p, rs) ==
    IF k > Len(VecOrder) THEN rs ELSE VecPush(k, Production(VecOrder[k], p), rs)

\* parse_value with its vec! evaluated: the first Ok of the results, or
\* the most recent error.
ValueOf(rs) ==
    [res |-> IF rs[Len(rs)].res = NoReturn THEN NoReturn
             ELSE LoopResults([i \in 1..Len(rs) |-> rs[i].res], 1, None),
     p   |-> rs[Len(rs)].p]

\* Parses any JSON value.
parse_value(p) == ValueOf(Vec(1, p, <<>>))

\* The loop of parse_array goes round.
ArrayAgain(p, array, sep) ==
    IF Stuck(p) THEN [res |-> NoReturn, p |-> Again(p, "array", sep)]
    ELSE ArrayLoop(Again(p, "array", sep), array)

\* The end of one iteration of the loop of parse_array.
ArrayNext(p, array) ==
    IF ch_is(p, ",") THEN ArrayAgain(consume_char(p), array, TRUE)
    ELSE IF ch_is(p, "]") THEN [res |-> Ok(Array(array)), p |-> consume_char(p)]
    ELSE ArrayAgain(p, array, FALSE)

\* parse_array reporting its own error when an element fails.
ArrayMatchOwnError(value, array) ==
    IF value.res.ok THEN ArrayNext(value.p, Append(array, value.res.v))
    ELSE [res |-> error(value.p, "UnclosedArray"),
          p   |-> Logged(value.p, "element", value.res.e)]

\* The match of parse_array on the value parsed.
ArrayMatch(value, array) ==
    IF value.res.ok THEN ArrayNext(value.p, Append(array, value.res.v))
    ELSE [res |-> value.res, p |-> Logged(value.p, "element", value.res.e)]

\* The loop of parse_array.
ArrayLoop(p, array) == ArrayMatch(parse_value(Begin(p)), array)

\* Parses a JSON array of values.
parse_array(p) ==
    IF ch_is(p, "[") THEN Left(ArrayLoop(Enter(consume_char(p)), <<>>))
    ELSE [res |-> error(p, "UnclosedArray"), p |-> p]

\* The loop of parse_object goes round.
ObjectAgain(p, object, sep) ==
    IF Stuck(p) THEN [res |-> NoReturn, p |-> Again(p, "object", sep)]
    ELSE ObjectLoop(Again(p, "object", sep), object)

\* The end of one iteration of the loop of parse_object.
ObjectNext(p, object) ==
    IF ch_is(p, ",") THEN ObjectAgain(consume_char(p), object, TRUE)
    ELSE IF ch_is(p, "}") THEN [res |-> Ok(Object(object)), p |-> consume_char(p)]
    ELSE ObjectAgain(p, object, FALSE)

\* The match of parse_object on the member value parsed.
ObjectValue(value, key_string, object) ==
    IF value.res.ok
    THEN ObjectNext(consume_whitespace(value.p),
                    (key_string :> value.res.v) @@ object)
    ELSE [res |-> value.res, p |-> Logged(value.p, "value", value.res.e)]

\* The separating colon between key and value.
ObjectColon(p, key_string, object) ==
    IF ~ch_is(p, ":") THEN [res |-> error(p, "ExpectedColon"), p |-> p]
    ELSE ObjectValue(parse_value(consume_char(consume_whitespace(p))),
                     key_string, object)

\* The match of parse_object on the key parsed.
ObjectKey(key, object) ==
    IF key.res.ok
    THEN ObjectColon(consume_whitespace(key.p), into_string(key.res.v), object)
    ELSE [res |-> key.res, p |-> Logged(key.p, "key", key.res.e)]

\* The loop of parse_object.
ObjectLoop(p, object) ==
    ObjectKey(parse_string(consume_whitespace(Begin(p))), object)

\* parse_object after its consume_whitespace.
ObjectAt(p) ==
    IF ch_is(p, "{") THEN Left(ObjectLoop(Enter(consume_char(p)), <<>>))
    ELSE [res |-> error(p, "UnclosedObject"), p |-> p]

\* Parses a JSON object.
parse_object(p) ==
    IF eof(p) THEN [res |-> error(p, "EndOfFile"), p |-> p]
    ELSE ObjectAt(consume_whitespace(p))

\* JsonParser::parse
parse(p) == parse_value(p)

---------------------------------------------------------------------------
(* Display.                                                                *)

\* The Debug format of a char inside a str ({:?}).
EscapeChar(c) ==
    CASE c = "\"" -> <<"\\", "\"">>
      [] c = "\\" -> <<"\\", "\\">>
      [] c = "\n" -> <<"\\", "n">>
      [] c = "\t" -> <<"\\", "t">>
      [] c = "\r" -> <<"\\", "r">>
      [] OTHER    -> <<c>>

RECURSIVE EscapeDebug(_)
EscapeDebug(s) ==
    IF s = <<>> THEN <<>> ELSE EscapeChar(Head(s)) \o EscapeDebug(Tail(s))

\* format!("{:?}", s) of a String.
FormatDebug(s) == <<"\"">> \o EscapeDebug(s) \o <<"\"">>

\* String::pop
Pop(s) == IF s = <<>> THEN <<>> ELSE SubSeq(s, 1, Len(s) - 1)

\* The orders in which a HashMap with the key set S can iterate.
IterOrders(S) ==
    {o \in [1..Cardinality(S) -> S] : \A i, j \in DOMAIN o : i # j => o[i] # o[j]}

RECURSIVE print_json(_), PrintValues(_), PrintMembers(_, _)

\* The texts the for loop of the Array arm pushes for the values.
PrintValues(values) ==
    IF values = <<>> THEN {<<>>}
    ELSE {x \o <<",">> \o rest :
             x \in print_json(Head(values)), rest \in PrintValues(Tail(values))}

\* The texts the for loop of the Object arm pushes, iterating in order.
PrintMembers(map, order) ==
    IF order = <<>> THEN {<<>>}
    ELSE {FormatDebug(Head(order)) \o <<":">> \o x \o <<",">> \o rest :
             x \in print_json(map[Head(order)]),
             rest \in PrintMembers(map, Tail(order))}

\* The texts print_json can return for a value: one for each iteration
\* order of the HashMaps in it.
print_json(value) ==
    CASE value.tag = "Null"   -> {<<"n", "u", "l", "l">>}
      [] value.tag = "Bool"   -> {IF value.b THEN <<"t", "r", "u", "e">>
                                  ELSE <<"f", "a", "l", "s", "e">>}
      [] value.tag = "Num"    -> {FormatF64(value.n)}
      [] value.tag = "Str"    -> {FormatDebug(value.s)}
      [] value.tag = "Array"  ->
            {Append(Pop(<<"[">> \o body), "]") : body \in PrintValues(value.a)}
      [] value.tag = "Object" ->
            UNION {{Append(Pop(<<"{">> \o body), "}") :
                        body \in PrintMembers(value.o, order)} :
                   order \in IterOrders(DOMAIN value.o)}

\* PartialEq of JsonValue (derived): structural, with f64's == on numbers.
RECURSIVE JsonEq(_, _)
JsonEq(a, b) ==
    /\ a.tag = b.tag
    /\ CASE a.tag = "Num"    -> F64Eq(a.n, b.n)
         [] a.tag = "Array"  ->
               /\ Len(a.a) = Len(b.a)
               /\ \A i \in 1..Len(a.a) : JsonEq(a.a[i], b.a[i])
         [] a.tag = "Object" ->
               /\ DOMAIN a.o = DOMAIN b.o
               /\ \A k \in DOMAIN a.o : JsonEq(a.o[k], b.o[k])
         [] OTHER            -> a = b

---------------------------------------------------------------------------
(* Inputs.                                                                 *)

RECURSIVE Flatten(_)
Flatten(ts) == IF ts = <<>> THEN <<>> ELSE Head(ts) \o Flatten(Tail(ts))

True == <<"t", "r", "u", "e">>

False == <<"f", "a", "l", "s", "e">>

NullText == <<"n", "u", "l", "l">>

\* The pieces the token-sequence inputs are made of.
Tokens ==
    { <<"[">>, <<"]">>, <<"{">>, <<"}">>, <<",">>, <<":">>, <<" ">>, <<"\n">>,
      <<"\"">>, <<"a">>, <<"t">>, <<"1">>, <<"-">>, <<"\"", "a", "\"", ":">>,
      True, False, NullText }

\* Every text of at most MaxTokens tokens.
TokenInputs ==
    UNION {{Flatten(ts) : ts \in [1..n -> Tokens]} : n \in 0..MaxTokens}

\* A document: its tokens, the JsonValue it denotes, and whether every two
\* neighbours in its containers are separated by a comma.
Doc(toks, val, wf) == [toks |-> toks, val |-> val, wf |-> wf]

Scalars ==
    { Doc(<<True>>, Bool(TRUE), TRUE),
      Doc(<<<<"1">>>>, Num(F64Fin(FALSE, 1, 0)), TRUE),
      Doc(<<<<"\"", "a", "\"">>>>, Str(<<"a">>), TRUE) }

\* What stands between two neighbours: a comma, or nothing.
Separators == {<<<<",">>>>, <<>>}

\* The bodies of the arrays of n elements drawn from E.
RECURSIVE ArrayBodies(_, _)
ArrayBodies(E, n) ==
    IF n = 0 THEN {Doc(<<>>, <<>>, TRUE)}
    ELSE IF n = 1 THEN {Doc(e.toks, <<e.val>>, e.wf) : e \in E}
    ELSE {Doc(b.toks \o sep \o e.toks, Append(b.val, e.val),
              b.wf /\ e.wf /\ sep # <<>>) :
             b \in ArrayBodies(E, n - 1), sep \in Separators, e \in E}

\* The documents nested at most d deep: scalars, arrays of at most
\* MaxElems elements and objects of at most MaxMembers members.
RECURSIVE Docs(_)
Docs(d) ==
    IF d = 0 THEN Scalars
    ELSE Docs(d - 1)
         \cup {Doc(<<<<"[">>>> \o b.toks \o <<<<"]">>>>, Array(b.val), b.wf) :
                  b \in UNION {ArrayBodies(Docs(d - 1), n) : n \in 0..MaxElems}}
         \cup {Doc(<<<<"{">>, <<"}">>>>, Object(<<>>), TRUE)}
         \cup {Doc(<<<<"{">>, <<"\"", "a", "\"">>, <<":">>>> \o e.toks \o <<<<"}">>>>,
                   Object(<<"a">> :> e.val), e.wf) :
                  e \in IF MaxMembers >= 1 THEN Docs(d - 1) ELSE {}}

\* The runs of whitespace inserted between two tokens of a document.
WsRuns == {<<" ">>, <<"\n", "\t">>}

\* The tokens toks with the run ws after the first gap of them.
Insert(toks, gap, ws) ==
    Flatten(SubSeq(toks, 1, gap)) \o ws \o Flatten(SubSeq(toks, gap + 1, Len(toks)))

\* The texts of a document: as it is, and with one run of whitespace
\* between two adjacent tokens.
DocTexts(d) ==
    {Flatten(d.toks)}
        \cup {Insert(d.toks, gap, ws) : gap \in 1..(Len(d.toks) - 1), ws \in WsRuns}

\* No JsonResult yet.
NoResult == [ok |-> FALSE, e |-> [reason |-> None, line |-> 0, col |-> 0, at |-> 0]]

---------------------------------------------------------------------------
(* The state machine: a parser is constructed over an input, one           *)
(* production is called on it, an Ok value is displayed, and the displayed *)
(* text is parsed again.                                                   *)

\* JsonParser::new(input.chars()), input being a text of the document doc.
Start(input, doc) ==
    /\ parser = JsonParserNew(input)
    /\ base = doc
    /\ op = "none"
    /\ result = NoResult
    /\ attempts = <<>>
    /\ printed = <<>>
    /\ reparsed = NoResult
    /\ pc = "new"

\* Any text of a few tokens.
Init == \E input \in TokenInputs : Start(input, Doc(<<input>>, Null, FALSE))

\* A document, with whitespace between two of its tokens or without.
DocInit == \E d \in Docs(MaxDepth) : \E input \in DocTexts(d) : Start(input, d)

Returned(name, r, rs) ==
    /\ pc = "new"
    /\ r.res # NoReturn
    /\ op' = name
    /\ result' = r.res
    /\ parser' = r.p
    /\ attempts' = rs
    /\ pc' = "returned"
    /\ UNCHANGED <<base, printed, reparsed>>

ParseNull == Returned("parse_null", parse_null(parser), <<>>)

ParseNum == Returned("parse_num", parse_num(parser), <<>>)

ParseString == Returned("parse_string", parse_string(parser), <<>>)

ParseBool == Returned("parse_bool", parse_bool(parser), <<>>)

ParseArray == Returned("parse_array", parse_array(parser), <<>>)

ParseObject == Returned("parse_object", parse_object(parser), <<>>)

\* parse with the vec! rs of its parse_value.
Parsed(rs) == Returned("parse", ValueOf(rs), [i \in 1..Len(rs) |-> rs[i].res])

Parse == Parsed(Vec(1, parser, <<>>))

\* println!("{}", result) of main: Display writes print_json(self).
Display ==
    /\ pc = "returned"
    /\ result.ok
    /\ \E text \in print_json(result.v) : printed' = text
    /\ pc' = "printed"
    /\ UNCHANGED <<parser, base, op, result, attempts, reparsed>>

\* The printed text is given to a new parser and parsed, as main does
\* with the text of its file.
Reparse ==
    /\ pc = "printed"
    /\ reparsed' = parse(JsonParserNew(printed)).res
    /\ pc' = "reparsed"
    /\ UNCHANGED <<parser, base, op, result, attempts, printed>>

Next ==
    \/ ParseNull
    \/ ParseNum
    \/ ParseString
    \/ ParseBool
    \/ ParseArray
    \/ ParseObject
    \/ Parse
    \/ Display
    \/ Reparse

Spec == Init /\ [][Next]_vars

DocSpec == DocInit /\ [][Next]_vars

\* The productions with a loop over values, and parse.
Looping == {"parse", "parse_array", "parse_object"}

\* The call of one of them.
Run(name, p) ==
    CASE name = "parse"        -> parse(p)
      [] name = "parse_array"  -> parse_array(p)
      [] name = "parse_object" -> parse_object(p)

\* The body of the called production has run on the new parser r.p, as far
\* as it ever runs, to the outcome r.res.
Called(name, r) ==
    /\ op' = name
    /\ result' = r.res
    /\ parser' = r.p
    /\ pc' = "called"
    /\ UNCHANGED <<base, attempts, printed, reparsed>>

\* One of the productions is called on the new parser.
Call ==
    /\ pc = "new"
    /\ \E name \in Looping : Called(name, Run(name, parser))

\* The call returns its JsonResult, unless a loop of it goes round forever.
Return ==
    /\ pc = "called"
    /\ result # NoReturn
    /\ pc' = "returned"
    /\ UNCHANGED <<parser, base, op, result, attempts, printed, reparsed>>

CallNext ==
    \/ Call
    \/ Return

\* A call that can return does: the code runs on a single thread and
\* nothing but its own loops keeps a call from returning.
CallSpec == Init /\ [][CallNext]_vars /\ WF_vars(Return)

---------------------------------------------------------------------------
(* What the properties are stated with.                                    *)

Src == parser.src

\* The first index from i on at which text holds no whitespace
\* (Len(text) + 1 when there is none).
RECURSIVE FirstNonWs(_, _)
FirstNonWs(text, i) ==
    IF i <= Len(text) /\ text[i] \in Whitespace THEN FirstNonWs(text, i + 1) ELSE i

\* text holds the word at index i.
StartsAt(text, i, word) ==
    /\ i + Len(word) - 1 <= Len(text)
    /\ SubSeq(text, i, i + Len(word) - 1) = word

\* The 1-based line and column of index k of text (k = Len(text) + 1: the
\* end of the input).
NewlinesBefore(text, k) == {i \in 1..(k - 1) : text[i] = "\n"}

LineOf(text, k) == 1 + Cardinality(NewlinesBefore(text, k))

ColOf(text, k) ==
    1 + Cardinality({i \in 1..(k - 1) : \A n \in NewlinesBefore(text, k) : n < i})

\* Two JsonErrors with the same reason, line and col.
SameError(a, b) == a.reason = b.reason /\ a.line = b.line /\ a.col = b.col

ParseReturned == pc = "returned" /\ op = "parse"

---------------------------------------------------------------------------
(* C1 *)

\* C1: parse on the input [] returns Ok(Array) with zero elements and
\* parse on the input {} returns Ok(Object) with zero entries.
EmptyContainersAccepted ==
    ParseReturned =>
        /\ Src = <<"[", "]">> => result = Ok(Array(<<>>))
        /\ Src = <<"{", "}">> => result = Ok(Object(<<>>))

---------------------------------------------------------------------------
(* C2 *)

\* C2: when parse returns Ok(v) on a document, it returns Ok(v) as well on
\* the document with a run of whitespace between two adjacent tokens.
WhitespaceInsensitive ==
    (ParseReturned /\ base.wf /\ parse(JsonParserNew(Flatten(base.toks))).res.ok) =>
        result = parse(JsonParserNew(Flatten(base.toks))).res

---------------------------------------------------------------------------
(* C3 *)

\* C3 as stated: once an array element, an object key or a member value
\* failed to parse inside parse_array or parse_object, the top-level parse
\* returns Err carrying that same error.
ChildErrorReturnedByParse ==
    ParseReturned =>
        \A i \in DOMAIN parser.log :
            ~result.ok /\ SameError(result.e, parser.log[i].e)

\* C3, amended: the parse_array or parse_object call whose own element,
\* key or member value failed to parse returns Err carrying that same
\* error (same reason, line and col).
ChildErrorReturnedByProduction ==
    (pc = "returned" /\ op \in {"parse_array", "parse_object"}) =>
        \A i \in DOMAIN parser.log :
            parser.log[i].depth = 1 =>
                ~result.ok /\ SameError(result.e, parser.log[i].e)

\* A parse_object call returned after the value of one of its own members
\* had failed to parse.
ChildErrorWitness ==
    /\ pc = "returned"
    /\ op = "parse_object"
    /\ \E i \in DOMAIN parser.log :
           parser.log[i].depth = 1 /\ parser.log[i].kind = "value"

---------------------------------------------------------------------------
(* C4 *)

\* C4: parse_bool returns Ok(Bool(true)) only on a complete true,
\* Ok(Bool(false)) only on a complete false and an ExpectedBool error when
\* neither keyword is at the cursor; parse_null returns Ok(Null) only on a
\* complete null and an ExpectedNull error otherwise.
KeywordErrorsTyped ==
    pc = "returned" =>
        /\ op = "parse_bool" =>
            /\ result = Ok(Bool(TRUE)) => StartsAt(Src, FirstNonWs(Src, 1), True)
            /\ result = Ok(Bool(FALSE)) => StartsAt(Src, FirstNonWs(Src, 1), False)
            /\ (/\ ~StartsAt(Src, FirstNonWs(Src, 1), True)
                /\ ~StartsAt(Src, FirstNonWs(Src, 1), False))
               => (~result.ok /\ result.e.reason = "ExpectedBool")
        /\ op = "parse_null" =>
            /\ result.ok => (result.v = Null /\ StartsAt(Src, FirstNonWs(Src, 1), NullText))
            /\ ~StartsAt(Src, FirstNonWs(Src, 1), NullText)
               => (~result.ok /\ result.e.reason = "ExpectedNull")

---------------------------------------------------------------------------
(* C5 *)

\* A boolean, a number, or an array of these.
RECURSIVE BoolNumArray(_)
BoolNumArray(v) ==
    \/ v.tag \in {"Bool", "Num"}
    \/ v.tag = "Array" /\ \A i \in DOMAIN v.a : BoolNumArray(v.a[i])

\* No array in v is empty.
RECURSIVE NoEmptyArray(_)
NoEmptyArray(v) ==
    v.tag = "Array" => (v.a # <<>> /\ \A i \in DOMAIN v.a : NoEmptyArray(v.a[i]))

\* The input is a well-formed array text of booleans, numbers and nested
\* arrays of these.
ArrayText == base.wf /\ base.val.tag = "Array" /\ BoolNumArray(base.val)

\* C5: on a well-formed array text whose elements are booleans, numbers
\* and nested arrays of these, parse_value returns Ok(Array) holding the
\* value of every element, in input order, at every depth.
ArraysPreserved ==
    (ParseReturned /\ ArrayText /\ base.val.a # <<>>) =>
        (result.ok /\ JsonEq(result.v, base.val))

\* The same for the texts in which no array is empty.
NonEmptyArraysPreserved ==
    (ParseReturned /\ ArrayText /\ NoEmptyArray(base.val)) =>
        (result.ok /\ JsonEq(result.v, base.val))

---------------------------------------------------------------------------
(* C6 *)

ValueKinds == <<"Bool", "Str", "Num", "Null", "Array", "Object">>

OwnErrors == <<"ExpectedBool", "UnclosedStringLiteral", "NumberParsing", "ExpectedNull">>

\* C6: parse_value holds the results of bool, string, number, null, array
\* and object in this order, and returns the first Ok among them, or,
\* when there is none, the error of parse_object, the last one.
DispatchFirstOkLastError ==
    ParseReturned =>
        /\ Len(attempts) = 6
        /\ \A k \in 1..6 : attempts[k].ok => attempts[k].v.tag = ValueKinds[k]
        /\ \A k \in 1..4 : ~attempts[k].ok => attempts[k].e.reason = OwnErrors[k]
        /\ \A k \in 1..6 :
               (attempts[k].ok /\ \A j \in 1..(k - 1) : ~attempts[j].ok)
                   => result = attempts[k]
        /\ (\A k \in 1..6 : ~attempts[k].ok) => result = attempts[6]

\* Every production failed, the first and the last with different errors
\* at different places.
DispatchWitness ==
    /\ ParseReturned
    /\ \A k \in DOMAIN attempts : ~attempts[k].ok
    /\ attempts # <<>>
    /\ ~SameError(attempts[1].e, result.e)
    /\ attempts[1].e.col < result.e.col

---------------------------------------------------------------------------
(* C7 *)

Literals ==
    { [text |-> NullText, v |-> Null],
      [text |-> True, v |-> Bool(TRUE)],
      [text |-> False, v |-> Bool(FALSE)] }

\* C7: on an input that starts, after whitespace, with null, true or
\* false followed by more characters, parse returns the literal's value
\* and leaves the lookahead on the first character after the literal that
\* is not whitespace.
LiteralConsumesOnlyItself ==
    ParseReturned =>
        \A lit \in Literals :
            (/\ StartsAt(Src, FirstNonWs(Src, 1), lit.text)
             /\ FirstNonWs(Src, 1) + Len(lit.text) <= Len(Src))
            => /\ result = Ok(lit.v)
               /\ parser.pos = FirstNonWs(Src, FirstNonWs(Src, 1) + Len(lit.text))

---------------------------------------------------------------------------
(* C8 *)

\* C8: a JsonError carries the 1-based line and column of the lookahead
\* it was raised at: the first character of a line is at column 1.
ErrorPositionsOneBased ==
    (pc = "returned" /\ ~result.ok) =>
        /\ result.e.line = LineOf(Src, result.e.at)
        /\ result.e.col = ColOf(Src, result.e.at)

---------------------------------------------------------------------------
(* C9 *)

\* C9: when parse returns Ok(v) on an input without backslashes, the text
\* Display writes for v parses to a value equal to v.
RoundTrip ==
    (pc = "reparsed" /\ op = "parse" /\ \A i \in DOMAIN Src : Src[i] # "\\") =>
        (reparsed.ok /\ JsonEq(reparsed.v, result.v))

---------------------------------------------------------------------------
(* C10 *)

\* C10: an input in which two elements or two members stand next to each
\* other without a comma is never returned as Ok(Array) or Ok(Object)
\* holding both.
SeparatorRequired ==
    (ParseReturned /\ ~base.wf) => ~(result.ok /\ JsonEq(result.v, base.val))

---------------------------------------------------------------------------
(* C11 *)

\* Every call of parse, parse_array or parse_object returns.
CallReturns == (pc = "called") ~> (pc = "returned")

\* Every time a loop of parse_array or parse_object has gone round, the
\* iteration had consumed at least one character.
IterationsAdvance ==
    pc = "returned" =>
        \A i \in DOMAIN parser.iters : parser.iters[i].to > parser.iters[i].from

\* C11: on every finite input a call of parse returns Ok or Err, and every
\* iteration of the loops of parse_array and parse_object that does not
\* return consumes at least one character, also when the lookahead after
\* a value is neither a comma nor the closing bracket.
Termination == CallReturns /\ []IterationsAdvance

\* parse has returned after a loop went round on a lookahead character
\* that was neither a comma nor the closing bracket.
TerminationWitness ==
    /\ pc = "returned"
    /\ op = "parse"
    /\ \E i \in DOMAIN parser.iters :
           ~parser.iters[i].sep /\ parser.iters[i].to <= Len(Src)

=============================================================================
